---------------------------- MODULE Spec2Model ----------------------------
(***************************************************************************)
(* Hill climbing with random restart for the Euclidean TSP, as implemented *)
(* in code_and_data/tsp_hcs.py (one swap decision per iteration, restart   *)
(* on stagnation: the "inner-loop" variant) and code_and_data/tsp.py (a    *)
(* fresh random tour and a full climb per iteration: the "outer-loop"      *)
(* variant).                                                               *)
(*                                                                         *)
(* Numbers.  The program computes distances as IEEE doubles.  The model    *)
(* keeps them as fixed-point integers: a distance is the integer square    *)
(* root of Scale^2 * (dx^2 + dy^2), and a route length is the sum of such  *)
(* distances.  float('inf') is the integer Inf, larger than every route    *)
(* length of the instances below.                                          *)
(*                                                                         *)
(* Python's None and its empty list are both the empty sequence << >>.     *)
(* Lists are 1-based sequences; a tour holds city ranks 1..N and indexes   *)
(* the distance matrix directly (the code subtracts 1 for its 0-based      *)
(* rows).                                                                  *)
(***************************************************************************)
EXTENDS Integers, Sequences, FiniteSets, TLC

(***************************************************************************)
(* Bounds of the model.                                                    *)
(***************************************************************************)
\* largest iteration budget passed to hill_climbing in Spec
MaxIter == 2
\* largest restart_threshold passed to hill_climbing in Spec
MaxThreshold == 2
\* fixed-point scale of a distance (units per coordinate unit)
Scale == 100
\* the unit-square scenario: restart threshold and largest iteration budget
SquareThreshold == 5
SquareBudget == 12

\* float('inf')
Inf == 1000000

(***************************************************************************)
(* Input files.  A line is a record: kind is "NODE_COORD_SECTION", "EOF",  *)
(* "city" (three fields: id x y) or "text" (anything else).                *)
(***************************************************************************)
Marker == [kind |-> "NODE_COORD_SECTION", id |-> 0, x |-> 0, y |-> 0]
EofLine == [kind |-> "EOF", id |-> 0, x |-> 0, y |-> 0]
TextLine == [kind |-> "text", id |-> 0, x |-> 0, y |-> 0]
CityLine(i, a, b) == [kind |-> "city", id |-> i, x |-> a, y |-> b]

\* no NODE_COORD_SECTION at all: the city line is outside any section
FileNoSection == << TextLine, CityLine(1, 0, 0), EofLine >>
\* an empty NODE_COORD_SECTION
FileEmptySection == << TextLine, Marker, EofLine, CityLine(1, 0, 0) >>
\* a single city
FileOneCity == << TextLine, Marker, CityLine(1, 2, 3), EofLine >>
\* two cities
FileTwoCities == << Marker, CityLine(1, 0, 0), CityLine(2, 3, 4), EofLine >>
\* the 3-4-5 right triangle, ids neither contiguous nor in ascending order
FileTriangle ==
    << TextLine, Marker, CityLine(30, 0, 4), CityLine(10, 0, 0),
       CityLine(20, 3, 0), EofLine >>
\* the unit square (0,0), (0,1), (1,1), (1,0)
FileSquare ==
    << TextLine, Marker, CityLine(1, 0, 0), CityLine(2, 0, 1),
       CityLine(3, 1, 1), CityLine(4, 1, 0), EofLine >>
\* a flat rectangle with one city inside: it has local optima under the swap
\* neighbourhood that are not global optima
FileRectangle ==
    << Marker, CityLine(1, 0, 0), CityLine(2, 100, 0), CityLine(3, 100, 10),
       CityLine(4, 0, 10), CityLine(5, 50, 4), EofLine >>
\* a text line inside the section
FileMalformed == << Marker, CityLine(1, 0, 0), TextLine, EofLine >>

Files ==
    { FileNoSection, FileEmptySection, FileOneCity, FileTwoCities,
      FileTriangle, FileSquare, FileRectangle, FileMalformed }

VARIABLES
    file,                   \* the lines of the input file
    variant,                \* "hcs" (tsp_hcs.py) or "tsp" (tsp.py)
    iterations,             \* hill_climbing's iterations argument
    restart_threshold,      \* hill_climbing's restart_threshold argument
    pc,                     \* position in main / hill_climbing
    err,                    \* "none" or the kind of the exception raised
    city_list,              \* dict id -> (x, y)
    dist_matrix,            \* distance_matrix(coords_list)
    current_solution,
    current_route_length,
    neighbors,
    best_neighbor,
    best_neighbor_length,
    best_solution,
    best_route_length,
    best_route_lengths,     \* the trajectory
    no_improvement_count,
    it,                     \* iterations of the for loop started so far
    console,                \* what main printed (<< >>: nothing)
    solution_csv,           \* the rows main wrote (<< >>: nothing)
    min_held,               \* history: least route length of a tour that
                            \* current_solution has held
    stagnant,               \* history: consecutive iterations, up to now,
                            \* whose decision adopted no neighbor
    restarts                \* history: number of stagnation restarts

vars ==
    << file, variant, iterations, restart_threshold, pc, err, city_list,
       dist_matrix, current_solution, current_route_length, neighbors,
       best_neighbor, best_neighbor_length, best_solution, best_route_length,
       best_route_lengths, no_improvement_count, it, console, solution_csv,
       min_held, stagnant, restarts >>

(***************************************************************************)
(* read_tsp                                                                *)
(***************************************************************************)
\* city_list[city_id] = (x, y): a later line with the same id overwrites
DictPut(d, k, v) ==
    [i \in (DOMAIN d) \cup {k} |-> IF i = k THEN v ELSE d[i]]

\* the for loop of read_tsp from line i on; ok = FALSE is the ValueError
\* that int(temp[0]) raises on a line that is not "id x y"
RECURSIVE ReadLines(_, _, _, _)
ReadLines(lines, i, flag, d) ==
    IF i > Len(lines) THEN [ok |-> TRUE, city_list |-> d]
    ELSE IF lines[i].kind = "NODE_COORD_SECTION"
         THEN ReadLines(lines, i + 1, TRUE, d)
    ELSE IF lines[i].kind = "EOF" THEN [ok |-> TRUE, city_list |-> d]
    ELSE IF flag
         THEN IF lines[i].kind = "city"
              THEN ReadLines(lines, i + 1, flag,
                             DictPut(d, lines[i].id,
                                     << lines[i].x, lines[i].y >>))
              ELSE [ok |-> FALSE, city_list |-> d]
    ELSE ReadLines(lines, i + 1, flag, d)

read_tsp(lines) == ReadLines(lines, 1, FALSE, << >>)

(***************************************************************************)
(* euclidean_distance, distance_matrix                                     *)
(***************************************************************************)
\* integer square root: the root of n is twice the root of n \div 4, or one
\* more
RECURSIVE ISqrt(_)
ISqrt(n) ==
    IF n < 2 THEN n
    ELSE CHOOSE r \in UNION {{s, s + 1} : s \in {2 * ISqrt(n \div 4)}} :
             r * r <= n /\ (r + 1) * (r + 1) > n

euclidean_distance(n1, n2) ==
    ISqrt(Scale * Scale *
          ((n1[1] - n2[1]) * (n1[1] - n2[1]) +
           (n1[2] - n2[2]) * (n1[2] - n2[2])))

\* sorted(city_list): the ids in ascending order
RECURSIVE SortedIds(_)
SortedIds(S) ==
    IF S = {} THEN << >>
    ELSE CHOOSE q \in {<< m >> \o SortedIds(S \ {m}) :
                          m \in {a \in S : \A b \in S : a <= b}} : TRUE

\* coords_list = [city_list[city] for city in sorted(city_list)]
CoordsList(cl) ==
    LET ids == SortedIds(DOMAIN cl)
    IN  [k \in 1..Len(ids) |-> cl[ids[k]]]

\* zeros, then the upper triangle computed and mirrored
distance_matrix(coords_list) ==
    [i \in 1..Len(coords_list) |->
        [j \in 1..Len(coords_list) |->
            IF i = j THEN 0
            ELSE IF i < j
                 THEN euclidean_distance(coords_list[i], coords_list[j])
                 ELSE euclidean_distance(coords_list[j], coords_list[i])]]

(***************************************************************************)
(* random_solution, route_length                                           *)
(***************************************************************************)
\* the outcomes of random.shuffle(list(range(1, len(nodes_list) + 1)))
random_solution(nodes_list) ==
    Permutations(1..Cardinality(DOMAIN nodes_list))

\* the for loop of route_length: the edges i -> i+1 for i in k..len-1
RECURSIVE RouteEdges(_, _, _)
RouteEdges(sol, dm, k) ==
    IF k >= Len(sol) THEN 0
    ELSE dm[sol[k]][sol[k + 1]] + RouteEdges(sol, dm, k + 1)

\* current_solution[-1] raises IndexError on the empty list
RouteLengthRaises(sol) == Len(sol) = 0

route_length(sol, dm) ==
    RouteEdges(sol, dm, 1) + dm[sol[Len(sol)]][sol[1]]

(***************************************************************************)
(* get_neighbors, get_best_neighbor                                        *)
(***************************************************************************)
\* mutant of Swap: the second assignment of the exchange is lost
SwapOneWay(sol, i, j) == [sol EXCEPT ![i] = sol[j]]

\* neighbor[i], neighbor[j] = neighbor[j], neighbor[i] on a copy
Swap(sol, i, j) == [sol EXCEPT ![i] = sol[j], ![j] = sol[i]]

\* the two nested loops of get_neighbors from (i, j) on; the inner loop
\* starts at i + first
RECURSIVE NeighborLoops(_, _, _, _)
NeighborLoops(sol, i, j, first) ==
    IF i > Len(sol) THEN << >>
    ELSE IF j > Len(sol) THEN NeighborLoops(sol, i + 1, i + 1 + first, first)
    ELSE << Swap(sol, i, j) >> \o NeighborLoops(sol, i, j + 1, first)

\* mutant of get_neighbors: the inner loop starts at i instead of i + 1
get_neighbors_from_i(sol) == NeighborLoops(sol, 1, 1, 0)

get_neighbors(sol) == NeighborLoops(sol, 1, 2, 1)

\* neighbors[0] raises IndexError on the empty list
BestNeighborRaises(nbrs) == Len(nbrs) = 0

\* mutant of Shorter: the comparison is reversed
Longer(a, b) == a > b

\* the comparison that replaces the best neighbor seen so far
Shorter(a, b) == a < b

\* the for loop of get_best_neighbor from neighbor k on
RECURSIVE BestFrom(_, _, _, _, _)
BestFrom(nbrs, dm, k, best, len) ==
    IF k > Len(nbrs) THEN [neighbor |-> best, length |-> len]
    ELSE IF Shorter(route_length(nbrs[k], dm), len)
         THEN BestFrom(nbrs, dm, k + 1, nbrs[k], route_length(nbrs[k], dm))
         ELSE BestFrom(nbrs, dm, k + 1, best, len)

\* mutant of get_best_neighbor: the first neighbor is returned, the loop
\* that looks for a shorter one is skipped
get_first_neighbor(nbrs, dm) ==
    [neighbor |-> nbrs[1], length |-> route_length(nbrs[1], dm)]

get_best_neighbor(nbrs, dm) ==
    BestFrom(nbrs, dm, 1, nbrs[1], route_length(nbrs[1], dm))

Min(a, b) == IF a < b THEN a ELSE b

(***************************************************************************)
(* The decisions of hill_climbing                                          *)
(***************************************************************************)
\* tsp_hcs.py: if best_neighbor_length < current_route_length
Improves(neighbor_length, current_length) == neighbor_length < current_length

\* mutant of TspImproves: a neighbor of equal length is adopted too
TspImprovesOrTies(neighbor_length, current_length) ==
    neighbor_length <= current_length

\* tsp.py: if best_neighbor_length < current_route_length (inside the while)
TspImproves(neighbor_length, current_length) ==
    neighbor_length < current_length

\* if current_route_length < best_route_length
IsNewBest(current_length, best_length) == current_length < best_length

\* mutant of TrackedLength: the best length follows the current length
TrackedLengthFollows(current_length, best_length) == current_length

\* what best_route_length holds after the best-so-far bookkeeping
TrackedLength(current_length, best_length) ==
    IF IsNewBest(current_length, best_length) THEN current_length
    ELSE best_length

\* mutant of RestartDue: off by one
RestartLate(count, threshold) == count > threshold

\* if no_improvement_count >= restart_threshold
RestartDue(count, threshold) == count >= threshold

Variants == {"hcs", "tsp"}

Unset ==
    /\ pc = "main"
    /\ err = "none"
    /\ city_list = << >>
    /\ dist_matrix = << >>
    /\ current_solution = << >>
    /\ current_route_length = 0
    /\ neighbors = << >>
    /\ best_neighbor = << >>
    /\ best_neighbor_length = 0
    /\ best_solution = << >>
    /\ best_route_length = Inf
    /\ best_route_lengths = << >>
    /\ no_improvement_count = 0
    /\ it = 0
    /\ console = << >>
    /\ solution_csv = << >>
    /\ min_held = Inf
    /\ stagnant = 0
    /\ restarts = 0

Init ==
    /\ file \in Files
    /\ variant \in Variants
    /\ iterations \in 0..MaxIter
    /\ restart_threshold \in 0..MaxThreshold
    /\ Unset

\* the unit-square scenario
InitSquare ==
    /\ file = FileSquare
    /\ variant \in Variants
    /\ iterations \in 0..SquareBudget
    /\ restart_threshold = SquareThreshold
    /\ Unset

inputs == << file, variant, iterations, restart_threshold >>
outputs == << console, solution_csv >>
instance == << city_list, dist_matrix >>
selection == << neighbors, best_neighbor, best_neighbor_length >>
best == << best_solution, best_route_length >>

\* neighbors, best_neighbor and best_neighbor_length are locals that the code
\* assigns again before it reads them: once the decision is taken they are
\* dropped (back to their unset values)
SelectionDropped ==
    /\ neighbors' = << >>
    /\ best_neighbor' = << >>
    /\ best_neighbor_length' = 0

\* an exception of kind k leaves hill_climbing and main
Raise(k) == pc' = "failed" /\ err' = k

(***************************************************************************)
(* main: read the file, build the distance matrix, call hill_climbing.     *)
(* The model follows one call of hill_climbing, with the iterations and    *)
(* restart_threshold chosen in Init.                                       *)
(***************************************************************************)
Main ==
    /\ pc = "main"
    /\ \E r \in {read_tsp(file)} :
          IF r.ok
          THEN /\ city_list' = r.city_list
               /\ \E coords_list \in {CoordsList(r.city_list)} :
                      dist_matrix' = distance_matrix(coords_list)
               /\ pc' = IF variant = "hcs" THEN "hcs_init" ELSE "tsp_init"
               /\ err' = err
          ELSE /\ Raise("ValueError")
               /\ UNCHANGED instance
    /\ UNCHANGED << inputs, outputs, current_solution, current_route_length,
                    selection, best, best_route_lengths,
                    no_improvement_count, it, min_held, stagnant, restarts >>

\* print the best length, then write the best tour, one city per row;
\* iterating best_solution = None raises TypeError
MainWrite ==
    /\ pc = "returned"
    /\ console' = << best_route_length >>
    /\ IF best_solution = << >>
       THEN Raise("TypeError") /\ UNCHANGED solution_csv
       ELSE solution_csv' = best_solution /\ pc' = "exit" /\ err' = err
    /\ UNCHANGED << inputs, instance, current_solution, current_route_length,
                    selection, best, best_route_lengths,
                    no_improvement_count, it, min_held, stagnant, restarts >>

(***************************************************************************)
(* tsp_hcs.py hill_climbing                                                *)
(***************************************************************************)
HcsInit ==
    /\ pc = "hcs_init"
    /\ best_solution' = << >>
    /\ best_route_length' = Inf
    /\ best_route_lengths' = << >>
    /\ no_improvement_count' = 0
    /\ \E s \in random_solution(city_list) :
          /\ current_solution' = s
          /\ IF RouteLengthRaises(s)
             THEN /\ Raise("IndexError")
                  /\ UNCHANGED << current_route_length, min_held >>
             ELSE /\ current_route_length' = route_length(s, dist_matrix)
                  /\ min_held' = route_length(s, dist_matrix)
                  /\ pc' = "hcs_loop"
                  /\ err' = err
    /\ UNCHANGED << inputs, outputs, instance, selection, it, stagnant,
                    restarts >>

\* for _ in range(iterations); after the loop, return
HcsLoop ==
    /\ pc = "hcs_loop"
    /\ IF it < iterations
       THEN it' = it + 1 /\ pc' = "hcs_explore"
       ELSE it' = it /\ pc' = "returned"
    /\ UNCHANGED << inputs, outputs, instance, err, current_solution,
                    current_route_length, selection, best, best_route_lengths,
                    no_improvement_count, min_held, stagnant, restarts >>

HcsExplore ==
    /\ pc = "hcs_explore"
    /\ neighbors' = get_neighbors(current_solution)
    /\ pc' = "hcs_select"
    /\ UNCHANGED << inputs, outputs, instance, err, current_solution,
                    current_route_length, best_neighbor, best_neighbor_length,
                    best, best_route_lengths, no_improvement_count, it,
                    min_held, stagnant, restarts >>

HcsSelect ==
    /\ pc = "hcs_select"
    /\ IF BestNeighborRaises(neighbors)
       THEN /\ Raise("IndexError")
            /\ UNCHANGED << best_neighbor, best_neighbor_length >>
       ELSE /\ \E r \in {get_best_neighbor(neighbors, dist_matrix)} :
                   /\ best_neighbor' = r.neighbor
                   /\ best_neighbor_length' = r.length
            /\ pc' = "hcs_decide"
            /\ err' = err
    /\ UNCHANGED << inputs, outputs, instance, current_solution,
                    current_route_length, neighbors, best, best_route_lengths,
                    no_improvement_count, it, min_held, stagnant, restarts >>

HcsDecide ==
    /\ pc = "hcs_decide"
    /\ IF Improves(best_neighbor_length, current_route_length)
       THEN /\ current_route_length' = best_neighbor_length
            /\ current_solution' = best_neighbor
            /\ no_improvement_count' = 0
            /\ stagnant' = 0
            /\ min_held' = Min(min_held, route_length(best_neighbor, dist_matrix))
       ELSE /\ no_improvement_count' = no_improvement_count + 1
            /\ stagnant' = stagnant + 1
            /\ UNCHANGED << current_solution, current_route_length, min_held >>
    /\ SelectionDropped
    /\ pc' = "hcs_track"
    /\ UNCHANGED << inputs, outputs, instance, err, best,
                    best_route_lengths, it, restarts >>

HcsTrack ==
    /\ pc = "hcs_track"
    /\ best_route_length' = TrackedLength(current_route_length, best_route_length)
    /\ best_solution' =
           IF IsNewBest(current_route_length, best_route_length)
           THEN current_solution ELSE best_solution
    /\ pc' = "hcs_restart"
    /\ UNCHANGED << inputs, outputs, instance, err, current_solution,
                    current_route_length, selection, best_route_lengths,
                    no_improvement_count, it, min_held, stagnant, restarts >>

HcsRestart ==
    /\ pc = "hcs_restart"
    /\ IF RestartDue(no_improvement_count, restart_threshold)
       THEN \E s \in random_solution(city_list) :
               /\ current_solution' = s
               /\ current_route_length' = route_length(s, dist_matrix)
               /\ no_improvement_count' = 0
               /\ min_held' = Min(min_held, route_length(s, dist_matrix))
               /\ restarts' = restarts + 1
       ELSE UNCHANGED << current_solution, current_route_length,
                         no_improvement_count, min_held, restarts >>
    /\ pc' = "hcs_append"
    /\ UNCHANGED << inputs, outputs, instance, err, selection, best,
                    best_route_lengths, it, stagnant >>

HcsAppend ==
    /\ pc = "hcs_append"
    /\ best_route_lengths' = Append(best_route_lengths, best_route_length)
    /\ pc' = "hcs_loop"
    /\ UNCHANGED << inputs, outputs, instance, err, current_solution,
                    current_route_length, selection, best,
                    no_improvement_count, it, min_held, stagnant, restarts >>

(***************************************************************************)
(* tsp.py hill_climbing                                                    *)
(***************************************************************************)
TspInit ==
    /\ pc = "tsp_init"
    /\ best_solution' = << >>
    /\ best_route_lengths' = << >>
    /\ best_route_length' = Inf
    /\ no_improvement_count' = 0
    /\ pc' = "tsp_loop"
    /\ UNCHANGED << inputs, outputs, instance, err, current_solution,
                    current_route_length, selection, it, min_held, stagnant,
                    restarts >>

TspLoop ==
    /\ pc = "tsp_loop"
    /\ IF it < iterations
       THEN it' = it + 1 /\ pc' = "tsp_draw"
       ELSE it' = it /\ pc' = "returned"
    /\ UNCHANGED << inputs, outputs, instance, err, current_solution,
                    current_route_length, selection, best, best_route_lengths,
                    no_improvement_count, min_held, stagnant, restarts >>

\* both branches of the if draw a random tour; only the first resets the
\* counter
TspDraw ==
    /\ pc = "tsp_draw"
    /\ \E s \in random_solution(city_list) :
          /\ current_solution' = s
          /\ IF RouteLengthRaises(s)
             THEN /\ Raise("IndexError")
                  /\ UNCHANGED << current_route_length, min_held,
                                  no_improvement_count, restarts >>
             ELSE /\ current_route_length' = route_length(s, dist_matrix)
                  /\ min_held' = Min(min_held, route_length(s, dist_matrix))
                  /\ IF RestartDue(no_improvement_count, restart_threshold)
                     THEN /\ no_improvement_count' = 0
                          /\ restarts' = restarts + 1
                     ELSE UNCHANGED << no_improvement_count, restarts >>
                  /\ pc' = "tsp_explore"
                  /\ err' = err
    /\ UNCHANGED << inputs, outputs, instance, selection, best,
                    best_route_lengths, it, stagnant >>

TspExplore ==
    /\ pc = "tsp_explore"
    /\ neighbors' = get_neighbors(current_solution)
    /\ pc' = "tsp_select"
    /\ UNCHANGED << inputs, outputs, instance, err, current_solution,
                    current_route_length, best_neighbor, best_neighbor_length,
                    best, best_route_lengths, no_improvement_count, it,
                    min_held, stagnant, restarts >>

TspSelect ==
    /\ pc = "tsp_select"
    /\ IF BestNeighborRaises(neighbors)
       THEN /\ Raise("IndexError")
            /\ UNCHANGED << best_neighbor, best_neighbor_length >>
       ELSE /\ \E r \in {get_best_neighbor(neighbors, dist_matrix)} :
                   /\ best_neighbor' = r.neighbor
                   /\ best_neighbor_length' = r.length
            /\ pc' = "tsp_while"
            /\ err' = err
    /\ UNCHANGED << inputs, outputs, instance, current_solution,
                    current_route_length, neighbors, best, best_route_lengths,
                    no_improvement_count, it, min_held, stagnant, restarts >>

\* one pass of the while loop: adopt the best neighbor and select again, or
\* clear the flag and leave the loop
TspWhile ==
    /\ pc = "tsp_while"
    /\ IF TspImproves(best_neighbor_length, current_route_length)
       THEN /\ current_route_length' = best_neighbor_length
            /\ current_solution' = best_neighbor
            /\ \E nbrs \in {get_neighbors(best_neighbor)} :
                   /\ neighbors' = nbrs
                   /\ IF BestNeighborRaises(nbrs)
                      THEN /\ Raise("IndexError")
                           /\ UNCHANGED << best_neighbor, best_neighbor_length,
                                           no_improvement_count, stagnant >>
                      ELSE /\ \E r \in {get_best_neighbor(nbrs, dist_matrix)} :
                                  /\ best_neighbor' = r.neighbor
                                  /\ best_neighbor_length' = r.length
                           /\ no_improvement_count' = 0
                           /\ stagnant' = 0
                           /\ pc' = "tsp_while"
                           /\ err' = err
            /\ min_held' = Min(min_held, route_length(best_neighbor, dist_matrix))
       ELSE /\ no_improvement_count' = no_improvement_count + 1
            /\ stagnant' = stagnant + 1
            /\ pc' = "tsp_track"
            /\ SelectionDropped
            /\ UNCHANGED << err, current_solution, current_route_length,
                            min_held >>
    /\ UNCHANGED << inputs, outputs, instance, best, best_route_lengths, it,
                    restarts >>

TspTrack ==
    /\ pc = "tsp_track"
    /\ best_route_length' = TrackedLength(current_route_length, best_route_length)
    /\ best_solution' =
           IF IsNewBest(current_route_length, best_route_length)
           THEN current_solution ELSE best_solution
    /\ pc' = "tsp_append"
    /\ UNCHANGED << inputs, outputs, instance, err, current_solution,
                    current_route_length, selection, best_route_lengths,
                    no_improvement_count, it, min_held, stagnant, restarts >>

TspAppend ==
    /\ pc = "tsp_append"
    /\ best_route_lengths' = Append(best_route_lengths, best_route_length)
    /\ pc' = "tsp_loop"
    /\ UNCHANGED << inputs, outputs, instance, err, current_solution,
                    current_route_length, selection, best,
                    no_improvement_count, it, min_held, stagnant, restarts >>

Next ==
    \/ Main
    \/ MainWrite
    \/ HcsInit
    \/ HcsLoop
    \/ HcsExplore
    \/ HcsSelect
    \/ HcsDecide
    \/ HcsTrack
    \/ HcsRestart
    \/ HcsAppend
    \/ TspInit
    \/ TspLoop
    \/ TspDraw
    \/ TspExplore
    \/ TspSelect
    \/ TspWhile
    \/ TspTrack
    \/ TspAppend

Spec == Init /\ [][Next]_vars

SpecSquare == InitSquare /\ [][Next]_vars

\* tsp.py alone.  It reads restart_threshold in one place, the test at the
\* top of an iteration; the thresholds 0 and MaxThreshold give both outcomes.
InitTsp ==
    /\ file \in Files
    /\ variant = "tsp"
    /\ iterations \in 0..MaxIter
    /\ restart_threshold \in {0, MaxThreshold}
    /\ Unset

NextTsp ==
    \/ Main
    \/ MainWrite
    \/ TspInit
    \/ TspLoop
    \/ TspDraw
    \/ TspExplore
    \/ TspSelect
    \/ TspWhile
    \/ TspTrack
    \/ TspAppend

\* the program is sequential: a step that can be taken is taken
SpecTsp == InitTsp /\ [][NextTsp]_vars /\ WF_vars(NextTsp)

(***************************************************************************)
(* Properties                                                              *)
(***************************************************************************)
NumCities == Cardinality(DOMAIN city_list)

\* s has length n and every city rank 1..n occurs in it exactly once
IsPermutation(s, n) ==
    /\ Len(s) = n
    /\ \A c \in 1..n : Cardinality({p \in 1..Len(s) : s[p] = c}) = 1

PositionPairs(n) == {q \in (1..n) \X (1..n) : q[1] < q[2]}

SwapNeighborhood(t) == {Swap(t, q[1], q[2]) : q \in PositionPairs(Len(t))}

\* no swap neighbor of t is strictly shorter than t
IsLocalOptimum(t) ==
    \A n \in SwapNeighborhood(t) :
        ~(route_length(n, dist_matrix) < route_length(t, dist_matrix))

\* C1: the trajectory best_route_lengths is non-increasing, in both variants,
\* at every point of every run.
C1_TrajectoryNonIncreasing ==
    \A k \in 2..Len(best_route_lengths) :
        best_route_lengths[k] <= best_route_lengths[k - 1]

\* a run has returned a trajectory whose second entry is below its first
C1_Witness ==
    /\ pc = "returned"
    /\ Len(best_route_lengths) >= 2
    /\ best_route_lengths[2] < best_route_lengths[1]

\* C2: for a tour T of N >= 2 cities, get_neighbors(T) holds N*(N-1)/2
\* pairwise distinct tours, each T with the values at two positions i < j
\* exchanged and nothing else changed, and none of them is T.
C2_NeighborsAreSwaps ==
    (pc \in {"hcs_select", "tsp_select"} /\ Len(current_solution) >= 2) =>
        LET t == current_solution
            n == Len(current_solution)
        IN  /\ Len(neighbors) * 2 = n * (n - 1)
            /\ \A a, b \in 1..Len(neighbors) :
                   a # b => neighbors[a] # neighbors[b]
            /\ \A k \in 1..Len(neighbors) :
                   /\ Len(neighbors[k]) = n
                   /\ neighbors[k] # t
                   /\ \E q \in PositionPairs(n) :
                          /\ neighbors[k][q[1]] = t[q[2]]
                          /\ neighbors[k][q[2]] = t[q[1]]
                          /\ \A p \in (1..n) \ {q[1], q[2]} :
                                 neighbors[k][p] = t[p]

\* the ten neighbors of a five-city tour have been generated
C2_Witness ==
    /\ pc = "hcs_select"
    /\ Len(current_solution) = 5
    /\ Len(neighbors) = 10

\* C3, as stated: on the unit square, with restart threshold SquareThreshold
\* and any iteration budget up to SquareBudget, hill_climbing returns a best
\* length of 4.0.
C3_SquareReturnsOptimum ==
    pc = "returned" => best_route_length = 4 * Scale

\* C3, amended: the same for every iteration budget of at least 1; the best
\* tour returned is a tour of length 4.0.
C3_SquareReturnsOptimumFromOneIteration ==
    (pc = "returned" /\ iterations >= 1) =>
        /\ best_route_length = 4 * Scale
        /\ best_solution # << >>
        /\ route_length(best_solution, dist_matrix) = 4 * Scale

\* a run of the inner-loop variant returns after two restarts, the current
\* tour being a crossing tour and the best length 4.0
C3_Witness ==
    /\ pc = "returned"
    /\ variant = "hcs"
    /\ restarts >= 2
    /\ current_route_length > 4 * Scale
    /\ best_route_length = 4 * Scale

\* C4: on N >= 2 cities the current tour, and the best tour once recorded, is
\* a permutation of 1..N in every state of a hill_climbing run.
C4_ToursArePermutations ==
    NumCities >= 2 =>
        /\ (\/ variant = "hcs" /\ pc \notin {"main", "hcs_init"}
            \/ pc \in {"tsp_explore", "tsp_select", "tsp_while", "tsp_track",
                       "tsp_append"}
            \/ current_solution # << >>)
               => IsPermutation(current_solution, NumCities)
        /\ best_solution # << >> => IsPermutation(best_solution, NumCities)

\* after a restart, a swap neighbor of the tour drawn has been adopted, and a
\* best tour is on record
C4_Witness ==
    /\ variant = "hcs"
    /\ pc = "hcs_track"
    /\ restarts >= 1
    /\ stagnant = 0
    /\ best_solution # << >>
    /\ best_solution # current_solution

\* C5: on a single-city instance the route length is 0, the neighbor set is
\* empty, no step raises IndexError, and a run that returns has used its
\* whole budget and reports best length 0.
C5_SingleCityRunCompletes ==
    NumCities = 1 =>
        /\ err # "IndexError"
        /\ pc \in {"hcs_select", "tsp_select"} => neighbors = << >>
        /\ current_solution # << >> => current_route_length = 0
        /\ pc = "returned" =>
               /\ it = iterations
               /\ iterations >= 1 => best_route_length = 0

\* the file has been read and holds no city
ZeroCitiesParsed == pc # "main" /\ err # "ValueError" /\ NumCities = 0

\* C6: when zero cities are parsed the program fails with an
\* InvalidInstanceError; it fails with no other kind of error, builds no tour
\* and produces no output.
C6_EmptyInstanceRejected ==
    ZeroCitiesParsed =>
        /\ pc = "failed" => err = "InvalidInstanceError"
        /\ pc # "exit"
        /\ console = << >>
        /\ solution_csv = << >>

\* a position between the iterations of tsp_hcs.py's loop, or inside one
\* before the decision
BeforeDecision ==
    pc \in {"hcs_loop", "hcs_explore", "hcs_select", "hcs_decide",
            "hcs_append"}

\* C7: in the inner-loop variant with restart_threshold >= 1, a counter that
\* has reached the threshold is answered, before the iteration ends, by a
\* freshly drawn tour with its length recomputed and the counter back at 0;
\* so 0 <= no_improvement_count < restart_threshold at the start of every
\* iteration; and a restart happens only after restart_threshold consecutive
\* iterations that adopted no neighbor.
C7_RestartOnStagnation ==
    [][(variant = "hcs" /\ restart_threshold >= 1) =>
          /\ BeforeDecision =>
                 /\ 0 <= no_improvement_count
                 /\ no_improvement_count < restart_threshold
          /\ BeforeDecision' =>
                 /\ 0 <= no_improvement_count'
                 /\ no_improvement_count' < restart_threshold
          /\ (pc = "hcs_restart" /\ no_improvement_count >= restart_threshold)
                 => /\ pc' = "hcs_append"
                    /\ IsPermutation(current_solution', NumCities)
                    /\ current_route_length' =
                           route_length(current_solution', dist_matrix)
                    /\ no_improvement_count' = 0
                    /\ restarts' = restarts + 1
          /\ restarts' # restarts
                 => /\ pc = "hcs_restart"
                    /\ no_improvement_count >= restart_threshold
                    /\ stagnant >= restart_threshold
      ]_vars

\* an iteration starts after a restart that followed a stagnant iteration
C7_Witness ==
    /\ variant = "hcs"
    /\ restart_threshold >= 1
    /\ restarts >= 1
    /\ pc = "hcs_explore"
    /\ no_improvement_count = 0

\* C8: in every decision step of hill_climbing (both variants, N >= 2),
\* current is replaced only by a swap neighbor that is strictly shorter than
\* current and no longer than any swap neighbor of current, the cached length
\* follows and the counter is set to 0; otherwise current and its cached
\* length stay and the counter grows by exactly 1.
C8_BestImprovementStep ==
    [][(pc \in {"hcs_decide", "tsp_while"} /\ NumCities >= 2) =>
          IF current_solution' # current_solution
          THEN /\ current_solution' \in SwapNeighborhood(current_solution)
               /\ route_length(current_solution', dist_matrix)
                      < route_length(current_solution, dist_matrix)
               /\ \A n \in SwapNeighborhood(current_solution) :
                      route_length(current_solution', dist_matrix)
                          <= route_length(n, dist_matrix)
               /\ current_route_length' =
                      route_length(current_solution', dist_matrix)
               /\ no_improvement_count' = 0
          ELSE /\ current_route_length' = current_route_length
               /\ no_improvement_count' = no_improvement_count + 1
      ]_vars

\* the second iteration on five cities has adopted a neighbor
C8_Witness ==
    /\ pc = "hcs_track"
    /\ NumCities = 5
    /\ it = 2
    /\ no_improvement_count = 0
    /\ stagnant = 0
    /\ restarts = 0

\* the state part of C9
ClimbEndsAtLocalOptimum ==
    (variant = "tsp" /\ NumCities >= 2) =>
        /\ err # "IndexError"
        /\ pc \in {"tsp_track", "tsp_append"}
               => IsLocalOptimum(current_solution)
        /\ best_solution # << >> => IsLocalOptimum(best_solution)
        /\ pc = "returned" =>
               /\ it = iterations
               /\ Len(best_route_lengths) = iterations

\* C9: in the outer-loop variant on N >= 2 cities every pass of the inner
\* climb that adopts a neighbor shortens current, the climb ends at a local
\* optimum, and the run ends: it returns after exactly `iterations` top-level
\* steps, and the best tour it returns is a local optimum.
C9_OuterClimbTerminates ==
    /\ []ClimbEndsAtLocalOptimum
    /\ [][(pc = "tsp_while" /\ pc' = "tsp_while") =>
             current_route_length' < current_route_length]_vars
    /\ <>(pc \in {"returned", "failed"})

\* a run of the outer-loop variant on five cities has returned after climbs
\* that adopted neighbors, its last climb ending at a local optimum that is
\* not the best tour
C9_Witness ==
    /\ variant = "tsp"
    /\ pc = "returned"
    /\ NumCities = 5
    /\ iterations >= 2
    /\ min_held < current_route_length
    /\ best_route_length < current_route_length

\* C10: in the inner-loop variant with iterations >= 1 (here for
\* restart_threshold >= 1), on return best_route_length is the route length
\* of best_solution and is <= the route length of every tour that current
\* held during the run, the tours drawn by restarts included.
C10_BestTracksWholeRun ==
    (variant = "hcs" /\ pc = "returned" /\ iterations >= 1
        /\ restart_threshold >= 1) =>
        /\ best_solution # << >>
        /\ best_route_length = route_length(best_solution, dist_matrix)
        /\ best_route_length <= min_held

=============================================================================
